---- MODULE Spec2Model ----
(***************************************************************************)
(* Model of bank_analysis.py: a linear script that builds a table of 20    *)
(* literal bank transactions, inspects it (missing values, duplicates,     *)
(* outliers), retypes two columns as categorical, aggregates it and draws  *)
(* two bar charts which it saves to bank_transaction_analysis.png.         *)
(*                                                                         *)
(* Labels of the source are Chinese string literals; the model writes      *)
(* them in English:                                                        *)
(*   columns  交易ID transaction_id, 客户ID customer_id,                   *)
(*            交易类型 transaction_type, 交易金额 amount,                  *)
(*            交易渠道 channel, 交易状态 status                            *)
(*   types    存款 deposit, 取款 withdrawal, 转账 transfer                 *)
(*   channels 网银 online, ATM atm, 手机银行 mobile, 柜台 counter          *)
(*   status   成功 success, 失败 failure                                   *)
(* Amounts are integers as in the source; a mean rounded to two decimals   *)
(* is held as an integer number of hundredths.                             *)
(***************************************************************************)
EXTENDS Integers, Sequences, FiniteSets, TLC

\* How many times the script is started in one behaviour.
MaxRuns == 3

NumRows == 20

VARIABLES
    pc,                  \* the statement group the process is about to run
    run,                 \* ordinal of the current execution of the script
    df,                  \* the DataFrame: a sequence of rows, << >> before creation
    dtypes,              \* dtype of each column of df
    missing,             \* df.isnull().sum()
    duplicate_rows,      \* df.duplicated().sum()
    abnormal,            \* rows flagged by the outlier filter
    type_summary,        \* groupby(type)[amount].agg(count, sum, mean).round(2)
    channel_count,       \* df[channel].value_counts()
    failed_transactions, \* rows whose status is failure
    computed,            \* names of the results assigned so far in this run
    fig,                 \* what has been drawn on the matplotlib figure
    file,                \* bank_transaction_analysis.png on disk
    console,             \* what has been printed, in order
    failed,              \* the statement that raised, "none" if none did
    prev                 \* results of the previous execution of the script

results == <<missing, duplicate_rows, abnormal, type_summary, channel_count,
             failed_transactions>>
vars == <<pc, run, df, dtypes, missing, duplicate_rows, abnormal, type_summary,
          channel_count, failed_transactions, computed, fig, file, console,
          failed, prev>>

----------------------------------------------------------------------------
(* The literal data, lines 17-29.                                          *)

\* range(1001, 1021).
TransactionIdsOffByOne == [i \in 1..NumRows |-> 999 + i]
TransactionIds == [i \in 1..NumRows |-> 1000 + i]

CustomerIds ==
    <<"C1001", "C1002", "C1001", "C1003", "C1004", "C1002", "C1005", "C1003", "C1006", "C1007",
      "C1008", "C1004", "C1009", "C1010", "C1005", "C1001", "C1006", "C1011", "C1002", "C1003">>

TransactionTypes ==
    <<"deposit", "withdrawal", "transfer", "deposit", "withdrawal", "transfer", "deposit", "withdrawal", "deposit", "transfer",
      "withdrawal", "deposit", "transfer", "deposit", "withdrawal", "transfer", "deposit", "withdrawal", "deposit", "transfer">>

Amounts ==
    <<5000, -2000, -1500, 8000, -500, -3000, 12000, -2200, 6000, -4000,
      -1000, 7000, -2500, 9000, -1200, -3500, 4500, -800, 3000, -1500>>

Channels ==
    <<"online", "atm", "mobile", "counter", "atm", "online", "mobile", "counter", "online", "mobile",
      "atm", "counter", "online", "mobile", "atm", "mobile", "counter", "atm", "online", "counter">>

Statuses ==
    <<"success", "success", "success", "success", "failure", "success", "success", "success", "success", "success",
      "success", "success", "success", "success", "success", "success", "success", "success", "success", "success">>

data ==
    [transaction_id   |-> TransactionIds,
     customer_id      |-> CustomerIds,
     transaction_type |-> TransactionTypes,
     amount           |-> Amounts,
     channel          |-> Channels,
     status           |-> Statuses]

Columns == DOMAIN data

\* pd.DataFrame(dict): the columns are zipped by position into rows.
DataFrame(d) ==
    [i \in 1..Len(d.transaction_id) |-> [c \in DOMAIN d |-> d[c][i]]]

\* dtypes pandas infers for the literal columns.
InferredDtypes ==
    [transaction_id   |-> "int64",
     customer_id      |-> "object",
     transaction_type |-> "object",
     amount           |-> "int64",
     channel          |-> "object",
     status           |-> "object"]

\* The missing value (None / NaN); no literal of the data equals it.
NaN == "NaN"

----------------------------------------------------------------------------
(* The pandas operations the script applies, as operators on a table.      *)

Indices(d) == 1..Len(d)

\* d[mask]: the rows among the first n of d at which the boolean mask is
\* true, in their original order.
RECURSIVE Filter(_, _, _)
Filter(d, mask, n) ==
    IF n = 0 THEN << >>
    ELSE IF mask[n] THEN Append(Filter(d, mask, n - 1), d[n])
         ELSE Filter(d, mask, n - 1)

\* isnull() of one cell. An int64 column cannot hold a missing value.
IsNull(v, dtype) == dtype /= "int64" /\ v = NaN

\* df.isnull().sum(): for each column the number of missing cells.
IsNullSum(d, dt) ==
    [c \in Columns |-> Cardinality({i \in Indices(d) : IsNull(d[i][c], dt[c])})]

\* df.duplicated(): a row is a duplicate when an earlier row equals it in
\* every column.
DuplicatedSubset(d, i) == \E j \in 1..(i - 1) : d[j].customer_id = d[i].customer_id
Duplicated(d, i) == \E j \in 1..(i - 1) : d[j] = d[i]

DuplicatedSum(d) == Cardinality({i \in Indices(d) : Duplicated(d, i)})

\* Line 50: (amount > 10000) | (amount < -5000).
UpperThreshold == 10000
LowerThreshold == -5000

IsAbnormalAnd(r) == r.amount > UpperThreshold /\ r.amount < LowerThreshold
IsAbnormal(r) == r.amount > UpperThreshold \/ r.amount < LowerThreshold

Abnormal(d) == Filter(d, [i \in Indices(d) |-> IsAbnormal(d[i])], Len(d))

\* Line 82: status == failure.
IsFailedNot(r) == r.status /= "failure"
IsFailed(r) == r.status = "failure"

FailedTransactions(d) == Filter(d, [i \in Indices(d) |-> IsFailed(d[i])], Len(d))

\* astype('category'): the distinct values of the column, sorted, become the
\* categories and every cell is stored as the code of its category (-1 for
\* a missing value). Strings sort by code point; SortKey is the first code
\* point of each label as written in the source.
SortKey ==
    [deposit |-> 23384, withdrawal |-> 21462, transfer |-> 36716,
     online |-> 32593, atm |-> 65, mobile |-> 25163, counter |-> 26588]

Unique(d, col) == {d[i][col] : i \in Indices(d)} \ {NaN}

\* Position of category v among the sorted categories cats, from 0.
CodeOf(v, cats) ==
    IF v \in cats
    THEN Cardinality({w \in cats : SortKey[w] < SortKey[v]})
    ELSE -1

\* The category with a given code.
Decode(code, cats) ==
    IF code = -1 THEN NaN
    ELSE CHOOSE v \in cats : CodeOf(v, cats) = code

\* df[col] = df[col].astype('category'): the table with the column replaced
\* by its categorical encoding, read back as values.
AsCategory(d, col) ==
    LET cats == Unique(d, col)
    IN  [i \in Indices(d) |->
            [d[i] EXCEPT ![col] = Decode(CodeOf(d[i][col], cats), cats)]]

\* 'sum': the total of the amounts of the first n rows of d.
RECURSIVE SumAmounts(_, _)
SumAmounts(d, n) ==
    IF n = 0 THEN 0 ELSE SumAmounts(d, n - 1) + d[n].amount

\* round(2) of the quotient num/den (den > 0), in hundredths: numpy rounds
\* to the nearest hundredth, a tie going to the even one.
Round2Trunc(num, den) ==
    IF num >= 0 THEN (100 * num) \div den ELSE -((100 * (-num)) \div den)
Round2(num, den) ==
    LET q == (100 * num) \div den
        r == (100 * num) % den
    IN  IF 2 * r < den THEN q
        ELSE IF 2 * r > den THEN q + 1
        ELSE IF q % 2 = 0 THEN q ELSE q + 1

\* The group of a key: the rows of d whose col equals it, in order.
Group(d, col, key) ==
    Filter(d, [i \in Indices(d) |-> d[i][col] = key], Len(d))

\* 'count' of a group: its number of non-missing amounts.
CountDistinct(g) == Cardinality({g[i].amount : i \in Indices(g)})
Count(g) == Cardinality({i \in Indices(g) : ~IsNull(g[i].amount, "int64")})

\* groupby(col)[amount].agg(['count', 'sum', 'mean']).round(2): one entry
\* per category of the column; mean100 is the mean in hundredths.
GroupSummary(d, col) ==
    [key \in Unique(d, col) |->
        LET g == Group(d, col, key)
        IN  [count   |-> Count(g),
             sum     |-> SumAmounts(g, Len(g)),
             mean100 |-> Round2(SumAmounts(g, Len(g)), Count(g))]]

\* df[col].value_counts(): the number of rows of each category.
ValueCounts(d, col) ==
    [key \in Unique(d, col) |-> Len(Group(d, col, key))]

----------------------------------------------------------------------------
(* The process. pc names the statement group that runs next; the script    *)
(* has no loop and a single conditional (line 51).                         *)

NoResults ==
    [computed            |-> {},
     missing             |-> << >>,
     duplicate_rows      |-> 0,
     abnormal            |-> << >>,
     type_summary        |-> << >>,
     channel_count       |-> << >>,
     failed_transactions |-> << >>]

Results ==
    [computed            |-> computed,
     missing             |-> missing,
     duplicate_rows      |-> duplicate_rows,
     abnormal            |-> abnormal,
     type_summary        |-> type_summary,
     channel_count       |-> channel_count,
     failed_transactions |-> failed_transactions]

Init ==
    /\ pc = "generate"
    /\ run = 1
    /\ df = << >>
    /\ dtypes = << >>
    /\ missing = NoResults.missing
    /\ duplicate_rows = NoResults.duplicate_rows
    /\ abnormal = NoResults.abnormal
    /\ type_summary = NoResults.type_summary
    /\ channel_count = NoResults.channel_count
    /\ failed_transactions = NoResults.failed_transactions
    /\ computed = {}
    /\ fig = "none"
    /\ file = "absent"
    /\ console = << >>
    /\ failed = "none"
    /\ prev = NoResults

\* Lines 15-36: build the table, print its head and info().
GenerateRandom ==
    /\ pc = "generate"
    /\ \E a \in {Amounts[1], Amounts[1] + run} :
          df' = DataFrame([data EXCEPT !.amount[1] = a])
    /\ dtypes' = InferredDtypes
    /\ console' = console \o <<"step1", "head", "info">>
    /\ pc' = "missing"
    /\ UNCHANGED <<run, results, computed, fig, file, failed, prev>>
Generate ==
    /\ pc = "generate"
    /\ df' = DataFrame(data)
    /\ dtypes' = InferredDtypes
    /\ console' = console \o <<"step1", "head", "info">>
    /\ pc' = "missing"
    /\ UNCHANGED <<run, results, computed, fig, file, failed, prev>>

\* Lines 38-41: print the per-column count of missing values.
CheckMissing ==
    /\ pc = "missing"
    /\ missing' = IsNullSum(df, dtypes)
    /\ computed' = computed \cup {"missing"}
    /\ console' = console \o <<"step2", "missing">>
    /\ pc' = "duplicates"
    /\ UNCHANGED <<run, df, dtypes, duplicate_rows, abnormal, type_summary,
                   channel_count, failed_transactions, fig, file, failed, prev>>

\* Lines 43-45: count the duplicated rows; none is dropped (line 46 is a
\* comment).
CheckDuplicates ==
    /\ pc = "duplicates"
    /\ duplicate_rows' = DuplicatedSum(df)
    /\ computed' = computed \cup {"duplicate_rows"}
    /\ console' = Append(console, "duplicate_rows")
    /\ pc' = "outliers"
    /\ UNCHANGED <<run, df, dtypes, missing, abnormal, type_summary,
                   channel_count, failed_transactions, fig, file, failed, prev>>

\* The median of the amounts of d (the lower of the two middle values when
\* the number of rows is even is enough for the variant below).
Median(d) ==
    CHOOSE m \in {d[i].amount : i \in Indices(d)} :
        /\ 2 * Cardinality({i \in Indices(d) : d[i].amount < m}) < Len(d)
        /\ 2 * Cardinality({i \in Indices(d) : d[i].amount <= m}) >= Len(d)

\* Lines 48-57: print the flagged rows, or a fixed message when there are
\* none. Lines 53-55, which would overwrite the flagged amounts with the
\* median, are comments: the table is left alone.
CheckOutliersFillMedian ==
    /\ pc = "outliers"
    /\ abnormal' = Abnormal(df)
    /\ computed' = computed \cup {"abnormal"}
    /\ df' = [i \in Indices(df) |->
                IF IsAbnormal(df[i]) THEN [df[i] EXCEPT !.amount = Median(df)]
                ELSE df[i]]
    /\ console' = console \o
          <<"outlier_header", IF abnormal' /= << >> THEN "abnormal" ELSE "no_outliers">>
    /\ pc' = "retype"
    /\ UNCHANGED <<run, dtypes, missing, duplicate_rows, type_summary,
                   channel_count, failed_transactions, fig, file, failed, prev>>
CheckOutliers ==
    /\ pc = "outliers"
    /\ abnormal' = Abnormal(df)
    /\ computed' = computed \cup {"abnormal"}
    /\ console' = console \o
          <<"outlier_header", IF abnormal' /= << >> THEN "abnormal" ELSE "no_outliers">>
    /\ pc' = "retype"
    /\ UNCHANGED <<run, df, dtypes, missing, duplicate_rows, type_summary,
                   channel_count, failed_transactions, fig, file, failed, prev>>

\* Lines 59-63: retype two columns as categorical and print the dtypes.
Retype ==
    /\ pc = "retype"
    /\ df' = AsCategory(AsCategory(df, "transaction_type"), "channel")
    /\ dtypes' = [dtypes EXCEPT !.transaction_type = "category",
                                !.channel = "category"]
    /\ console' = Append(console, "dtypes")
    /\ pc' = "describe"
    /\ UNCHANGED <<run, results, computed, fig, file, failed, prev>>

\* Lines 65-68: print describe() of the amounts; nothing is kept.
Describe ==
    /\ pc = "describe"
    /\ console' = console \o <<"step3", "describe">>
    /\ pc' = "by_type"
    /\ UNCHANGED <<run, df, dtypes, results, computed, fig, file, failed, prev>>

\* Lines 70-73.
SummarizeByType ==
    /\ pc = "by_type"
    /\ type_summary' = GroupSummary(df, "transaction_type")
    /\ computed' = computed \cup {"type_summary"}
    /\ console' = Append(console, "type_summary")
    /\ pc' = "by_channel"
    /\ UNCHANGED <<run, df, dtypes, missing, duplicate_rows, abnormal,
                   channel_count, failed_transactions, fig, file, failed, prev>>

\* Lines 75-78.
CountByChannel ==
    /\ pc = "by_channel"
    /\ channel_count' = ValueCounts(df, "channel")
    /\ computed' = computed \cup {"channel_count"}
    /\ console' = Append(console, "channel_count")
    /\ pc' = "failed"
    /\ UNCHANGED <<run, df, dtypes, missing, duplicate_rows, abnormal,
                   type_summary, failed_transactions, fig, file, failed, prev>>

\* Lines 80-83.
FilterFailed ==
    /\ pc = "failed"
    /\ failed_transactions' = FailedTransactions(df)
    /\ computed' = computed \cup {"failed_transactions"}
    /\ console' = Append(console, "failed_transactions")
    /\ pc' = "subplots"
    /\ UNCHANGED <<run, df, dtypes, missing, duplicate_rows, abnormal,
                   type_summary, channel_count, fig, file, failed, prev>>

\* The statements of step 4 that call into matplotlib, the file system or
\* the display; an exception raised by any of them is caught nowhere.
VisSteps == {"subplots", "plot_types", "plot_channels", "layout", "savefig", "show"}

\* Lines 85-87: print the step banner, create the figure with two axes.
Subplots ==
    /\ pc = "subplots"
    /\ fig' = "axes"
    /\ console' = Append(console, "step4")
    /\ pc' = "plot_types"
    /\ UNCHANGED <<run, df, dtypes, results, computed, file, failed, prev>>

\* Lines 89-93: bar chart of the per-type sums on the left axes.
PlotTypes ==
    /\ pc = "plot_types"
    /\ fig' = "left"
    /\ pc' = "plot_channels"
    /\ UNCHANGED <<run, df, dtypes, results, computed, file, console, failed, prev>>

\* Lines 95-99: bar chart of the per-channel counts on the right axes.
PlotChannels ==
    /\ pc = "plot_channels"
    /\ fig' = "both"
    /\ pc' = "layout"
    /\ UNCHANGED <<run, df, dtypes, results, computed, file, console, failed, prev>>

\* Line 101.
TightLayout ==
    /\ pc = "layout"
    /\ fig' = "laid_out"
    /\ pc' = "savefig"
    /\ UNCHANGED <<run, df, dtypes, results, computed, file, console, failed, prev>>

\* Lines 103-104: write the figure to the fixed file name, replacing any
\* file of an earlier run, then print that it was saved.
SaveFig ==
    /\ pc = "savefig"
    /\ file' = "png"
    /\ console' = Append(console, "saved")
    /\ pc' = "show"
    /\ UNCHANGED <<run, df, dtypes, results, computed, fig, failed, prev>>

\* Line 105: display the figure; returns when the window is closed.
Show ==
    /\ pc = "show"
    /\ fig' = "shown"
    /\ pc' = "banner"
    /\ UNCHANGED <<run, df, dtypes, results, computed, file, console, failed, prev>>

\* Lines 107-108: the completion banner; the process then exits.
Banner ==
    /\ pc = "banner"
    /\ console' = console \o <<"complete", "summary">>
    /\ pc' = "done"
    /\ UNCHANGED <<run, df, dtypes, results, computed, fig, file, failed, prev>>

\* A statement of step 4 other than savefig raises. No try/except encloses
\* it: the exception ends the process. The banner of step 4 (line 85) is
\* printed before subplots is called.
RaiseSwallowed ==
    /\ pc \in VisSteps \ {"savefig"}
    /\ failed' = pc
    /\ console' = IF pc = "subplots" THEN Append(console, "step4") ELSE console
    /\ pc' = "banner"
    /\ UNCHANGED <<run, df, dtypes, results, computed, fig, file, prev>>
Raise ==
    /\ pc \in VisSteps \ {"savefig"}
    /\ failed' = pc
    /\ console' = IF pc = "subplots" THEN Append(console, "step4") ELSE console
    /\ pc' = "aborted"
    /\ UNCHANGED <<run, df, dtypes, results, computed, fig, file, prev>>

\* savefig raises (no permission, disk full, ...): the file is as it was,
\* or was created or cut short by the failed write. The process ends.
SaveFigRaiseSwallowed ==
    /\ pc = "savefig"
    /\ file' \in {file, "truncated"}
    /\ failed' = pc
    /\ console' = Append(console, "saved")
    /\ pc' = "show"
    /\ UNCHANGED <<run, df, dtypes, results, computed, fig, prev>>
SaveFigRaise ==
    /\ pc = "savefig"
    /\ file' \in {file, "truncated"}
    /\ failed' = pc
    /\ pc' = "aborted"
    /\ UNCHANGED <<run, df, dtypes, results, computed, fig, console, prev>>

\* The script is started again: a new process with nothing of the previous
\* one but the image file. prev keeps what the previous process computed.
Rerun ==
    /\ pc \in {"done", "aborted"}
    /\ run < MaxRuns
    /\ run' = run + 1
    /\ prev' = Results
    /\ pc' = "generate"
    /\ df' = << >>
    /\ dtypes' = << >>
    /\ missing' = NoResults.missing
    /\ duplicate_rows' = NoResults.duplicate_rows
    /\ abnormal' = NoResults.abnormal
    /\ type_summary' = NoResults.type_summary
    /\ channel_count' = NoResults.channel_count
    /\ failed_transactions' = NoResults.failed_transactions
    /\ computed' = {}
    /\ fig' = "none"
    /\ console' = << >>
    /\ failed' = "none"
    /\ UNCHANGED file

Next ==
    \/ Generate
    \/ CheckMissing
    \/ CheckDuplicates
    \/ CheckOutliers
    \/ Retype
    \/ Describe
    \/ SummarizeByType
    \/ CountByChannel
    \/ FilterFailed
    \/ Subplots
    \/ PlotTypes
    \/ PlotChannels
    \/ TightLayout
    \/ SaveFig
    \/ Show
    \/ Banner
    \/ Raise
    \/ SaveFigRaise
    \/ Rerun

Spec == Init /\ [][Next]_vars

----------------------------------------------------------------------------
(* Properties.                                                             *)

Printed(tag) == \E i \in DOMAIN console : console[i] = tag

Abs(x) == IF x < 0 THEN -x ELSE x

AmountsOf(rows) == {rows[i].amount : i \in DOMAIN rows}

\* Rows of the table whose transaction type is t.
RowsOfType(t) == {i \in DOMAIN df : df[i].transaction_type = t}

\* Sum of f[x] over the finite set S.
RECURSIVE SumOf(_, _)
SumOf(f, S) ==
    IF S = {} THEN 0
    ELSE LET x == CHOOSE y \in S : TRUE IN f[x] + SumOf(f, S \ {x})

\* C1 as stated: the outlier filter (amount > 10000 or amount < -5000) on
\* the 20 literal amounts yields exactly 2 rows, those with amount 12000 and
\* amount -3500.
C1_TwoOutliers ==
    "abnormal" \in computed =>
        /\ Len(abnormal) = 2
        /\ AmountsOf(abnormal) = {12000, -3500}

\* C1 amended: the outlier filter on the 20 literal amounts yields exactly 1
\* row, the one with amount 12000 (transaction 1007); the row with amount
\* -3500 is not flagged, -3500 being above the lower threshold -5000.
C1_OneOutlier ==
    "abnormal" \in computed =>
        /\ Len(abnormal) = 1
        /\ abnormal[1].amount = 12000
        /\ abnormal[1].transaction_id = 1007
        /\ -3500 \notin AmountsOf(abnormal)
        /\ Printed("abnormal") /\ ~Printed("no_outliers")

C1_Witness ==
    /\ pc = "retype"
    /\ "abnormal" \in computed
    /\ -3500 \in AmountsOf(df)
    /\ abnormal = <<df[7]>>

\* C2: from its creation to the end of the run the table has exactly 20
\* rows and 6 columns, and its transaction_id values are 1001..1020, each
\* once and in order.
C2_TableShape ==
    /\ pc /= "generate" => df /= << >>
    /\ df /= << >> =>
        /\ Len(df) = 20
        /\ \A i \in 1..20 :
              /\ Cardinality(DOMAIN df[i]) = 6
              /\ df[i].transaction_id = 1000 + i
        /\ {df[i].transaction_id : i \in DOMAIN df} = 1001..1020

C2_Witness ==
    /\ pc = "done"
    /\ Len(df) = 20
    /\ df[20].transaction_id = 1020

\* C3: the failure filter returns exactly 1 row, with customer_id C1004 and
\* amount -500.
C3_OneFailure ==
    "failed_transactions" \in computed =>
        /\ Len(failed_transactions) = 1
        /\ failed_transactions[1].customer_id = "C1004"
        /\ failed_transactions[1].amount = -500
        /\ failed_transactions[1].status = "failure"

C3_Witness ==
    /\ pc = "subplots"
    /\ "failed_transactions" \in computed
    /\ failed_transactions = <<df[5]>>

\* C4: the group-by on transaction_type partitions the table: every row is
\* in exactly one group and the group counts add up to 20.
C4_Partition ==
    "type_summary" \in computed =>
        /\ \A i \in DOMAIN df :
              Cardinality({t \in DOMAIN type_summary : i \in RowsOfType(t)}) = 1
        /\ SumOf([t \in DOMAIN type_summary |-> type_summary[t].count],
                 DOMAIN type_summary) = 20

C4_Witness ==
    /\ pc = "by_channel"
    /\ "type_summary" \in computed
    /\ Cardinality(DOMAIN type_summary) = 3
    /\ Len(df) = 20

\* C5: once created the table is never mutated: no step of the run, the
\* outlier branch and the categorical retyping included, changes the number
\* of rows or any cell of the 6 columns.
C5_NeverMutated ==
    [][(df /= << >> /\ run' = run) => df' = df]_vars

C5_Witness ==
    /\ pc = "done"
    /\ abnormal /= << >>
    /\ Printed("abnormal")
    /\ dtypes.transaction_type = "category"
    /\ dtypes.channel = "category"
    /\ df = DataFrame(data)

\* C6: the number of rows identical in all 6 columns to an earlier row is
\* zero.
C6_NoDuplicates ==
    "duplicate_rows" \in computed => duplicate_rows = 0

C6_Witness ==
    /\ pc = "outliers"
    /\ "duplicate_rows" \in computed
    /\ \E i, j \in DOMAIN df : i /= j /\ df[i].customer_id = df[j].customer_id

C8_SavedBeforeBanner ==
    /\ fig = "shown" => file = "png" /\ Printed("saved")
    /\ Printed("complete") => file = "png" /\ fig = "shown"
    /\ pc = "done" =>
          console = <<"step1", "head", "info", "step2", "missing",
                      "duplicate_rows", "outlier_header", "abnormal", "dtypes",
                      "step3", "describe", "type_summary", "channel_count",
                      "failed_transactions", "step4", "saved", "complete",
                      "summary">>

C8_Witness ==
    /\ run = 1
    /\ pc = "done"
    /\ Printed("complete")
    /\ file = "png"

\* C9: for each transaction type the summary holds the number of rows of
\* the type, the sum of their amounts and their mean to the nearest
\* hundredth; it has one entry per type of the table and the sums add up to
\* the sum of all amounts.
C9_GroupSummary ==
    "type_summary" \in computed =>
        LET amount == [i \in DOMAIN df |-> df[i].amount]
        IN  /\ DOMAIN type_summary = {"deposit", "withdrawal", "transfer"}
            /\ \A t \in DOMAIN type_summary :
                  LET e == type_summary[t]
                  IN  /\ e.count = Cardinality(RowsOfType(t))
                      /\ e.sum = SumOf(amount, RowsOfType(t))
                      /\ 2 * Abs(e.mean100 * e.count - 100 * e.sum) <= e.count
            /\ SumOf([t \in DOMAIN type_summary |-> type_summary[t].sum],
                     DOMAIN type_summary) = SumOf(amount, DOMAIN df)

C9_Witness ==
    /\ "type_summary" \in computed
    /\ type_summary.deposit = [count |-> 8, sum |-> 54500, mean100 |-> 681250]
    /\ type_summary.withdrawal = [count |-> 6, sum |-> -7700, mean100 |-> -128333]
    /\ type_summary.transfer = [count |-> 6, sum |-> -16000, mean100 |-> -266667]

\* C10: a failure in plotting, saving or displaying is not handled and not
\* retried: the process stops at the failing statement, no later statement
\* of the run executes and the completion banner is not printed.
C10_FailureAborts ==
    [][/\ failed' /= "none" =>
            /\ pc' = "aborted"
            /\ \A i \in DOMAIN console' : console'[i] /= "complete"
       /\ (failed = "none" /\ failed' /= "none") =>
            /\ failed' = pc
            /\ fig' = fig
            /\ pc = "savefig" => \A i \in DOMAIN console' : console'[i] /= "saved"
       /\ failed /= "none" => run' = run + 1
      ]_vars

C10_Witness ==
    /\ pc = "aborted"
    /\ failed = "savefig"
    /\ file = "truncated"
    /\ ~Printed("saved")

====
